---- MODULE Spec2Model ----
(***************************************************************************)
(* Model of the HTTP-triggered handlers of SupplierDatabaseFU:             *)
(*   sendEmail/index.ts (send-mail handler and the pre-check variant of    *)
(*   license management), manageLicense.ts (direct-mutate variant),        *)
(*   resetFreelancerPassword.ts and handleActivityResponse.ts.             *)
(* Every await on the Graph client is one step of an invocation; the       *)
(* remote directory (users, group members) is shared state that outlives   *)
(* an invocation.                                                          *)
(***************************************************************************)
EXTENDS Integers, Sequences, FiniteSets, TLC

(* ------------------------------------------------------------------ *)
(* Bounds                                                             *)
(* ------------------------------------------------------------------ *)
\* injected remote failures per invocation (failures the directory state
\* itself produces, such as 404 for an unknown user, are not counted)
MaxFaults == 1
\* guest accounts the directory creates through invitations
MaxGuests == 2
\* invocation slots
NumInvocations == 2

Procs == 1..NumInvocations
\* the slot used when invocations run one after the other
SeqProcs == {1}

(* ------------------------------------------------------------------ *)
(* JavaScript values                                                  *)
(* ------------------------------------------------------------------ *)
\* a field absent from the JSON payload
Undefined == "undefined"

\* `!x` on a string-or-undefined field
Falsy(x) == x = Undefined \/ x = ""

\* `a || b` on string-or-undefined fields
OrElse(a, b) == IF Falsy(a) THEN b ELSE a

UpperChars == <<"A","B","C","D","E","F","G","H","I","J","K","L","M",
                "N","O","P","Q","R","S","T","U","V","W","X","Y","Z">>
LowerChars == <<"a","b","c","d","e","f","g","h","i","j","k","l","m",
                "n","o","p","q","r","s","t","u","v","w","x","y","z">>

LowerChar(c) ==
  IF \E i \in DOMAIN UpperChars : UpperChars[i] = c
  THEN LowerChars[CHOOSE i \in DOMAIN UpperChars : UpperChars[i] = c]
  ELSE c

\* ToLowerCase left out: the string is compared as received
ToLowerCase_Identity(s) == s

\* String.prototype.toLowerCase on a string held as a sequence of characters
ToLowerCase(s) == [i \in DOMAIN s |-> LowerChar(s[i])]

\* String.prototype.includes on texts held as sequences of words
Includes(msg, pat) ==
  \E i \in 0..(Len(msg) - Len(pat)) :
    \A j \in 1..Len(pat) : msg[i + j] = pat[j]

\* FullName without the separating space
FullName_NoSpace(firstName, lastName) == <<firstName, lastName>>

\* `${firstName} ${lastName}`
FullName(firstName, lastName) == <<firstName, " ", lastName>>

(* ------------------------------------------------------------------ *)
(* Errors thrown by the Graph client                                  *)
(* ------------------------------------------------------------------ *)
\* statusCode 0 stands for an error object that carries no statusCode
NoErr == [statusCode |-> 0, code |-> "", message |-> <<>>]

ErrAlreadyExists ==
  [statusCode |-> 400, code |-> "Request_BadRequest",
   message |-> <<"One", "or", "more", "added", "object", "references",
                 "already", "exist">>]
ErrBadRequest ==
  [statusCode |-> 400, code |-> "Request_BadRequest",
   message |-> <<"Invalid", "object", "identifier">>]
ErrUnsupportedQuery ==
  [statusCode |-> 400, code |-> "Request_UnsupportedQuery",
   message |-> <<"Unsupported", "query">>]
ErrUnauthorized ==
  [statusCode |-> 401, code |-> "InvalidAuthenticationToken",
   message |-> <<"Access", "token", "validation", "failure">>]
ErrForbidden ==
  [statusCode |-> 403, code |-> "Authorization_RequestDenied",
   message |-> <<"Insufficient", "privileges">>]
ErrNotFound ==
  [statusCode |-> 404, code |-> "Request_ResourceNotFound",
   message |-> <<"Resource", "does", "not", "exist">>]
ErrMailboxNotFound ==
  [statusCode |-> 404, code |-> "ErrorInvalidUser",
   message |-> <<"The", "requested", "user", "is", "invalid">>]
ErrThrottled ==
  [statusCode |-> 429, code |-> "TooManyRequests",
   message |-> <<"Too", "many", "requests">>]
ErrUnavailable ==
  [statusCode |-> 503, code |-> "serviceNotAvailable",
   message |-> <<"Service", "unavailable">>]
\* thrown by credential.getToken inside getAccessToken: no statusCode
ErrCredential ==
  [statusCode |-> 0, code |-> "CredentialUnavailableError",
   message |-> <<"ClientSecretCredential", "authentication", "failed">>]

\* failures of the request itself
RequestFaults ==
  {ErrAlreadyExists, ErrBadRequest, ErrUnsupportedQuery, ErrUnauthorized,
   ErrForbidden, ErrNotFound, ErrMailboxNotFound, ErrThrottled, ErrUnavailable}

\* everything a Graph call can throw
Faults == RequestFaults \cup {ErrCredential}

(* ------------------------------------------------------------------ *)
(* Fixed identifiers                                                  *)
(* ------------------------------------------------------------------ *)
OFFICE365_E1_GROUP_ID == "1263971a-19e5-42d1-a25e-36d71ec76014"
SHAREPOINT_SITE_URL == "https://egginthenest.sharepoint.com/sites/INTRANET"
SHAREPOINT_LIST_ID == "ebfc366f-f3ca-4230-8f81-25d4e23d5f0b"
SERVICE_ACCOUNT_EMAIL == "noreply@egg-events.com"
\* "Validate recipients (max 50)"
MaxRecipients == 50
\* subject.substring(0, 255)
MaxSubjectLen == 255

(* ------------------------------------------------------------------ *)
(* The remote directory                                               *)
(* ------------------------------------------------------------------ *)
User1 ==
  [id |-> "u1", userPrincipalName |-> "u1@egg-events.com",
   mail |-> "a@b.com", displayName |-> <<"Uma", " ", "One">>]
User2 ==
  [id |-> "u2", userPrincipalName |-> "a@b.com",
   mail |-> "u2@mail.example", displayName |-> <<"Udo", " ", "Two">>]
NoUser ==
  [id |-> "", userPrincipalName |-> "", mail |-> "", displayName |-> <<>>]

GuestIds == <<"g1", "g2", "g3", "g4">>

GuestUpn(email) == IF email = "a@b.com" THEN "a_b.com#EXT#" ELSE "c_d.com#EXT#"

\* mailboxes the mail service can send from
Mailboxes == {SERVICE_ACCOUNT_EMAIL}

SITE_ID == "site-1"

VARIABLES
  directory,   \* user records of the remote directory
  members,     \* ids of the members of OFFICE365_E1_GROUP_ID
  guests,      \* number of guest accounts created so far
  handler,     \* per invocation: the handler that runs
  req,         \* per invocation: the parsed JSON payload
  pc,          \* per invocation: the await the handler is at
  calls,       \* per invocation: the Graph requests issued, in order
  tokenCalls,  \* per invocation: getAccessToken invocations
  faults,      \* per invocation: injected failures so far
  local,       \* per invocation: local variables of the handler
  resp         \* per invocation: the HTTP response

world == <<directory, members, guests>>
vars == <<directory, members, guests, handler, req, pc, calls, tokenCalls,
          faults, local, resp>>

NoResp == [status |-> 0, body |-> [success |-> FALSE]]
NoLocal == [user |-> NoUser, siteId |-> "", newPassword |-> "", response |-> <<>>]

\* a request without a body
NoData == [empty |-> TRUE]

\* a Graph request as it was issued and answered
Call(op, arg, data, err, ret) ==
  [op |-> op, arg |-> arg, data |-> data, err |-> err, ret |-> ret]

\* GET /users/{key}: key is an object id or a principal name
LookupUser(key) == {u \in directory : u.id = key \/ u.userPrincipalName = key}

\* GET /users?$filter=mail eq 'email' or userPrincipalName eq 'email'
MatchEmail(email) ==
  {u \in directory : u.mail = email \/ u.userPrincipalName = email}

\* the orders in which the service may list a set of at most three records
Orderings(S) ==
  {s \in UNION {[1..n -> S] : n \in {Cardinality(S)}} :
     \A i, j \in DOMAIN s : i # j => s[i] # s[j]}

\* the ids of the records of a search result, in the order returned
Ids(value) == [i \in DOMAIN value |-> value[i].id]

\* users.value at its last index
TakeIndex0_Last(value) == value[Len(value)]

\* users.value[0]
TakeIndex0(value) == value[1]

\* the answers a request can get: the one the directory state gives, or an
\* injected failure while the invocation's budget lasts
Outcomes(p, natural) ==
  {natural} \cup (IF faults[p] < MaxFaults THEN Faults \ {natural} ELSE {})

\* bookkeeping of one Graph request: the getAccessToken callback runs first
\* and the request is issued only if it returned a token
Issue(p, natural, err, call) ==
  /\ tokenCalls' = [tokenCalls EXCEPT ![p] = @ + 1]
  /\ faults' = [faults EXCEPT ![p] = IF err = natural THEN @ ELSE @ + 1]
  /\ calls' = [calls EXCEPT ![p] =
                 Append(@, IF err = ErrCredential
                           THEN Call("getToken", call.op, NoData, err, "")
                           ELSE call)]

Respond(p, r) ==
  /\ resp' = [resp EXCEPT ![p] = r]
  /\ pc' = [pc EXCEPT ![p] = "done"]

Goto(p, label) ==
  /\ pc' = [pc EXCEPT ![p] = label]
  /\ UNCHANGED resp

\* validation passed: the handler goes on to its first await
Enter(p, label) ==
  /\ pc' = [pc EXCEPT ![p] = label]
  /\ resp' = [resp EXCEPT ![p] = NoResp]

\* the Functions host invokes a registered handler with a request
Begin(p, h, r) ==
  /\ pc[p] = "idle"
  /\ handler' = [handler EXCEPT ![p] = h]
  /\ req' = [req EXCEPT ![p] = r]
  /\ UNCHANGED <<calls, tokenCalls, faults, local>>

\* the host has sent the response: nothing of the invocation is kept
Finish(p) ==
  /\ pc[p] = "done"
  /\ pc' = [pc EXCEPT ![p] = "idle"]
  /\ handler' = [handler EXCEPT ![p] = "none"]
  /\ req' = [req EXCEPT ![p] = [none |-> TRUE]]
  /\ calls' = [calls EXCEPT ![p] = <<>>]
  /\ tokenCalls' = [tokenCalls EXCEPT ![p] = 0]
  /\ faults' = [faults EXCEPT ![p] = 0]
  /\ local' = [local EXCEPT ![p] = NoLocal]
  /\ resp' = [resp EXCEPT ![p] = NoResp]
  /\ UNCHANGED world

Init ==
  /\ directory = {User1, User2}
  /\ members = {}
  /\ guests = 0
  /\ handler = [p \in Procs |-> "none"]
  /\ req = [p \in Procs |-> [none |-> TRUE]]
  /\ pc = [p \in Procs |-> "idle"]
  /\ calls = [p \in Procs |-> <<>>]
  /\ tokenCalls = [p \in Procs |-> 0]
  /\ faults = [p \in Procs |-> 0]
  /\ local = [p \in Procs |-> NoLocal]
  /\ resp = [p \in Procs |-> NoResp]

(* ------------------------------------------------------------------ *)
(* sendEmail/index.ts: the send-mail handler                          *)
(* ------------------------------------------------------------------ *)
Recipients(n) == [i \in 1..n |-> "r@x.example"]

\* ---- String.prototype.substring(start, end) on a character sequence
Substring(s, start, end) ==
  SubSeq(s, start + 1, IF end < Len(s) THEN end ELSE Len(s))

\* ---- the character classes of the regular expressions of sanitizeHtml
Digits == {"0", "1", "2", "3", "4", "5", "6", "7", "8", "9"}
WordChars == {LowerChars[i] : i \in DOMAIN LowerChars}
             \cup {UpperChars[i] : i \in DOMAIN UpperChars}
             \cup Digits \cup {"_"}
WhiteSpace == {" ", "\t", "\n", "\r"}
Quotes == {"\"", "'"}

\* the characters of s
Chars(s) == {s[j] : j \in 1..Len(s)}

\* the pattern pat (in lower case) matches s at index i, ignoring case
MatchesAt(s, i, pat) ==
  /\ i >= 1
  /\ i + Len(pat) - 1 <= Len(s)
  /\ \A k \in 1..Len(pat) : LowerChar(s[i + k - 1]) = pat[k]

\* the least index >= i whose character is outside class (Len(s)+1 if none):
\* where a greedy class* starting at i stops
RunEnd(s, i, class) ==
  LET stops == {j \in i..Len(s) : s[j] \notin class}
  IN IF stops = {} THEN Len(s) + 1
     ELSE CHOOSE j \in stops : \A k \in stops : j <= k

PatScriptOpen == <<"<", "s", "c", "r", "i", "p", "t">>
PatScriptClose == <<"<", "/", "s", "c", "r", "i", "p", "t", ">">>
PatOn == <<"o", "n">>
PatJavascript == <<"j", "a", "v", "a", "s", "c", "r", "i", "p", "t", ":">>
PatImg == <<"i", "m", "g">>
PatData == <<"d", "a", "t", "a", ":">>

\* /<script\b[^<]*(?:(?!<\/script>)<[^<]*)*<\/script>/gi at index i: the
\* index of the last matched character, 0 if there is no match. No "<" that
\* opens "</script>" can be consumed before the end of the match, so the
\* match runs to the first "</script>" after the opening.
ScriptMatchEnd(s, i) ==
  IF /\ MatchesAt(s, i, PatScriptOpen)
     /\ (i + 7 > Len(s) \/ s[i + 7] \notin WordChars)
  THEN LET closes == {j \in (i + 7)..Len(s) : MatchesAt(s, j, PatScriptClose)}
       IN IF closes = {} THEN 0
          ELSE (CHOOSE j \in closes : \A k \in closes : j <= k) + 8
  ELSE 0

\* on\w+\s*=\s* at index i: the index after the match, 0 if there is none
HandlerHead(s, i) ==
  IF ~MatchesAt(s, i, PatOn) THEN 0
  ELSE LET w == RunEnd(s, i + 2, WordChars)
       IN IF w = i + 2 THEN 0
          ELSE LET e == RunEnd(s, w, WhiteSpace)
               IN IF e > Len(s) \/ s[e] # "=" THEN 0
                  ELSE RunEnd(s, e + 1, WhiteSpace)

\* /on\w+\s*=\s*["'][^"']*["']/gi at index i
QuotedHandlerEnd(s, i) ==
  LET h == HandlerHead(s, i)
  IN IF h = 0 \/ h > Len(s) THEN 0
     ELSE IF s[h] \notin Quotes THEN 0
     ELSE LET q == RunEnd(s, h + 1, Chars(s) \ Quotes)
          IN IF q > Len(s) THEN 0 ELSE q

\* /on\w+\s*=\s*[^\s>]*/gi at index i
UnquotedHandlerEnd(s, i) ==
  LET h == HandlerHead(s, i)
  IN IF h = 0 THEN 0
     ELSE RunEnd(s, h, Chars(s) \ (WhiteSpace \cup {">"})) - 1

\* /javascript:/gi at index i
JavascriptEnd(s, i) ==
  IF MatchesAt(s, i, PatJavascript) THEN i + 10 ELSE 0

MatchEnd(step, s, i) ==
  CASE step = "script" -> ScriptMatchEnd(s, i)
    [] step = "quoted" -> QuotedHandlerEnd(s, i)
    [] step = "unquoted" -> UnquotedHandlerEnd(s, i)
    [] step = "javascript" -> JavascriptEnd(s, i)

\* String.prototype.replace(/.../g, ""): one pass from left to right from
\* index i, each match removed and the scan resumed after it
RECURSIVE ReplaceAll(_, _, _)
ReplaceAll(step, s, i) ==
  IF i > Len(s) THEN <<>>
  ELSE LET e == MatchEnd(step, s, i)
       IN IF e >= i
          THEN ReplaceAll(step, s, e + 1)
          ELSE <<s[i]>> \o ReplaceAll(step, s, i + 1)

\* /(<(?!img)[^>]*)\sdata:[^>]*>/gi at index i: <<k, j>> where k is the
\* index of the white space before the last "data:" of the tag and j the
\* index of the closing ">", <<0, 0>> if there is no match
DataMatch(s, i) ==
  IF s[i] # "<" \/ MatchesAt(s, i + 1, PatImg) THEN <<0, 0>>
  ELSE LET j == RunEnd(s, i + 1, Chars(s) \ {">"})
           ks == {k \in (i + 1)..(j - 6) :
                    s[k] \in WhiteSpace /\ MatchesAt(s, k + 1, PatData)}
       IN IF j > Len(s) \/ ks = {} THEN <<0, 0>>
          ELSE <<CHOOSE k \in ks : \A n \in ks : n <= k, j>>

\* replace(/(<(?!img)[^>]*)\sdata:[^>]*>/gi, "$1>")
RECURSIVE ReplaceData(_, _)
ReplaceData(s, i) ==
  IF i > Len(s) THEN <<>>
  ELSE LET m == DataMatch(s, i)
       IN IF m[1] > 0
          THEN SubSeq(s, i, m[1] - 1) \o <<">">> \o ReplaceData(s, m[2] + 1)
          ELSE <<s[i]>> \o ReplaceData(s, i + 1)

\* sanitizeHtml: the five replacements in the order of the chain
sanitizeHtml(html) ==
  IF html = <<>> THEN <<>>
  ELSE LET noScript == ReplaceAll("script", html, 1)
           noQuoted == ReplaceAll("quoted", noScript, 1)
           noHandler == ReplaceAll("unquoted", noQuoted, 1)
           noScheme == ReplaceAll("javascript", noHandler, 1)
       IN ReplaceData(noScheme, 1)

\* ---- bodies a caller can post
\* plain text: Hi
BodyPlain ==
  <<"H", "i">>

\* the script block of 8 (Sanitization): <script>alert(1)</script>Hello
BodyScript ==
  <<"<", "s", "c", "r", "i", "p", "t", ">", "a", "l", "e", "r", "t", "(",
    "1", ")", "<", "/", "s", "c", "r", "i", "p", "t", ">", "H", "e", "l",
    "l", "o">>

\* an anchor with a javascript: href: <a href="javascript:evil()">x</a>
BodyAnchor ==
  <<"<", "a", " ", "h", "r", "e", "f", "=", "\"", "j", "a", "v", "a", "s",
    "c", "r", "i", "p", "t", ":", "e", "v", "i", "l", "(", ")", "\"", ">",
    "x", "<", "/", "a", ">">>

\* the same scheme in mixed case: <a href="JavaScript:evil()">x</a>
BodyAnchorUpper ==
  <<"<", "a", " ", "h", "r", "e", "f", "=", "\"", "J", "a", "v", "a", "S",
    "c", "r", "i", "p", "t", ":", "e", "v", "i", "l", "(", ")", "\"", ">",
    "x", "<", "/", "a", ">">>

\* the scheme text wrapped around itself: <a href="javajavascript:script:evil()">x</a>
BodyNested ==
  <<"<", "a", " ", "h", "r", "e", "f", "=", "\"", "j", "a", "v", "a", "j",
    "a", "v", "a", "s", "c", "r", "i", "p", "t", ":", "s", "c", "r", "i",
    "p", "t", ":", "e", "v", "i", "l", "(", ")", "\"", ">", "x", "<", "/",
    "a", ">">>

\* an image with a data: source: <img src="data:image/png;base64,AAA">
BodyImage ==
  <<"<", "i", "m", "g", " ", "s", "r", "c", "=", "\"", "d", "a", "t", "a",
    ":", "i", "m", "a", "g", "e", "/", "p", "n", "g", ";", "b", "a", "s",
    "e", "6", "4", ",", "A", "A", "A", "\"", ">">>

\* a non-image tag with a data: attribute value: <a href=x data:y>z</a>
BodyData ==
  <<"<", "a", " ", "h", "r", "e", "f", "=", "x", " ", "d", "a", "t", "a",
    ":", "y", ">", "z", "<", "/", "a", ">">>

\* a quoted and an unquoted inline handler: <b onclick="f()" onload=g>t</b>
BodyHandlers ==
  <<"<", "b", " ", "o", "n", "c", "l", "i", "c", "k", "=", "\"", "f", "(",
    ")", "\"", " ", "o", "n", "l", "o", "a", "d", "=", "g", ">", "t", "<",
    "/", "b", ">">>

Bodies ==
  {BodyPlain,
   BodyScript,
   BodyAnchor,
   BodyAnchorUpper,
   BodyNested,
   BodyImage,
   BodyData,
   BodyHandlers}

\* subjects a caller can post: a short one and one of MaxSubjectLen + 1
\* characters
LongSubject == [i \in 1..(MaxSubjectLen + 1) |-> "s"]
Subjects == {<<"H", "i">>, LongSubject}

\* subject and body are character sequences; <<>> stands for a missing or
\* empty string
SendEmailRequests ==
  [hasBody : {TRUE},
   hasRecipients : BOOLEAN,
   recipients : {Recipients(0), Recipients(2), Recipients(MaxRecipients),
                 Recipients(MaxRecipients + 1)},
   from : {Undefined, SERVICE_ACCOUNT_EMAIL, "ghost@egg-events.com"},
   subject : {<<>>} \cup Subjects,
   body : {<<>>} \cup Bodies,
   isHtml : {TRUE}]
  \cup
  [hasBody : {FALSE}, hasRecipients : {FALSE}, recipients : {Recipients(0)},
   from : {Undefined}, subject : {<<>>}, body : {<<>>}, isHtml : {TRUE}]

\* the status mapping of the send-mail handler's catch block
SendEmailErrorStatus(error) ==
  IF error.statusCode = 401 THEN 401
  ELSE IF error.statusCode = 403 THEN 403
  ELSE IF error.statusCode = 404 THEN 404
  ELSE IF error.statusCode = 429 THEN 429
  ELSE 500

SendEmailErrorResponse(error) ==
  [status |-> SendEmailErrorStatus(error),
   body |-> [success |-> FALSE, error |-> "Failed to send email",
             details |-> error.message, timestamp |-> "now"]]

\* validation of the send-mail payload, up to the first await
SendEmailValidate(p) ==
  \E r \in SendEmailRequests :
    /\ Begin(p, "sendEmail", r)
    /\ UNCHANGED world
    /\ IF ~r.hasBody
       THEN Respond(p, [status |-> 400,
                        body |-> [success |-> FALSE,
                                  error |-> "Request body is required"]])
       ELSE IF \/ ~r.hasRecipients
               \/ Len(r.recipients) = 0
               \/ r.subject = <<>>
               \/ r.body = <<>>
               \/ Falsy(r.from)
       THEN Respond(p, [status |-> 400,
                        body |-> [success |-> FALSE,
                                  error |-> "Missing required fields: recipients, from, subject, body"]])
       ELSE IF Len(r.recipients) > MaxRecipients
       THEN Respond(p, [status |-> 400,
                        body |-> [success |-> FALSE,
                                  error |-> "Maximum 50 recipients allowed per email"]])
       ELSE Enter(p, "sendMail")

\* the send with a catch block that drops the error
SendEmailPost_Swallow(p) ==
  /\ pc[p] = "sendMail"
  /\ handler[p] = "sendEmail"
  /\ LET natural == IF req[p].from \in Mailboxes THEN NoErr ELSE ErrMailboxNotFound
     IN \E err \in Outcomes(p, natural) :
          /\ Issue(p, natural, err,
                   Call("sendMail", req[p].from,
                        [subject |-> Substring(req[p].subject, 0, MaxSubjectLen),
                         contentType |-> IF req[p].isHtml THEN "HTML" ELSE "Text",
                         content |-> sanitizeHtml(req[p].body),
                         toRecipients |-> req[p].recipients],
                        err, ""))
          /\ IF TRUE
             THEN Respond(p, [status |-> 200,
                              body |-> [success |-> TRUE,
                                        message |-> "Email sent",
                                        recipientCount |-> Len(req[p].recipients),
                                        timestamp |-> "now"]])
             ELSE Respond(p, SendEmailErrorResponse(err))
  /\ UNCHANGED <<world, handler, req, local>>

\* POST /users/{from}/sendMail
SendEmailPost(p) ==
  /\ pc[p] = "sendMail"
  /\ handler[p] = "sendEmail"
  /\ LET natural == IF req[p].from \in Mailboxes THEN NoErr ELSE ErrMailboxNotFound
     IN \E err \in Outcomes(p, natural) :
          /\ Issue(p, natural, err,
                   Call("sendMail", req[p].from,
                        [subject |-> Substring(req[p].subject, 0, MaxSubjectLen),
                         contentType |-> IF req[p].isHtml THEN "HTML" ELSE "Text",
                         content |-> sanitizeHtml(req[p].body),
                         toRecipients |-> req[p].recipients],
                        err, ""))
          /\ IF err = NoErr
             THEN Respond(p, [status |-> 200,
                              body |-> [success |-> TRUE,
                                        message |-> "Email sent",
                                        recipientCount |-> Len(req[p].recipients),
                                        timestamp |-> "now"]])
             ELSE Respond(p, SendEmailErrorResponse(err))
  /\ UNCHANGED <<world, handler, req, local>>

(* ------------------------------------------------------------------ *)
(* manageLicense.ts: license management, direct-mutate variant        *)
(* ------------------------------------------------------------------ *)
ManageLicenseRequests ==
  [userEmail : {Undefined, "", "a@b.com", "c@d.com"},
   entraUPN : {Undefined, "u1@egg-events.com", "gone@egg-events.com"},
   entraObjectId : {Undefined, "u1", "zz"},
   firstName : {Undefined, "Ann"},
   lastName : {Undefined, "Lee"},
   isActive : {Undefined, "true", "false"}]

\* the status mapping of manageLicense's catch block
ManageLicenseErrorStatus(error) ==
  IF error.statusCode = 401 THEN 401
  ELSE IF error.statusCode = 403 THEN 403
  ELSE IF error.statusCode = 404 THEN 404
  ELSE IF error.statusCode = 429 THEN 429
  ELSE 500

ManageLicenseErrorResponse(error) ==
  [status |-> ManageLicenseErrorStatus(error),
   body |-> [success |-> FALSE, error |-> "Failed to manage license",
             details |-> error.message, timestamp |-> "now"]]

ManageLicenseOk(r, user) ==
  [status |-> 200,
   body |-> [success |-> TRUE,
             action |-> IF r.isActive = "true" THEN "added" ELSE "removed",
             userPrincipalName |-> user.userPrincipalName,
             userId |-> user.id,
             timestamp |-> "now"]]

\* the await findOrCreateUser reaches once the lookups before `from` are over
ML_LookupFrom(r, from) ==
  IF from = "start" /\ ~Falsy(r.entraObjectId) THEN "ml_getById"
  ELSE IF from \in {"start", "ml_getById"} /\ ~Falsy(r.entraUPN) THEN "ml_getByUPN"
  ELSE "ml_search"

\* ML_Membership with the branches of `if (licenseRequest.isActive)` swapped
ML_Membership_Swapped(r) == IF r.isActive = "true" THEN "ml_remove" ELSE "ml_add"

\* the await manageLicense reaches once findOrCreateUser has returned
ML_Membership(r) == IF r.isActive = "true" THEN "ml_add" ELSE "ml_remove"

\* ManageLicenseValidate with the lastName test left out
ManageLicenseValidate_NoLastName(p) ==
  \E r \in ManageLicenseRequests :
    /\ Begin(p, "manageLicense", r)
    /\ UNCHANGED world
    /\ IF \/ Falsy(r.userEmail)
          \/ Falsy(r.firstName)
          \/ r.isActive = Undefined
       THEN Respond(p, [status |-> 400,
                        body |-> [success |-> FALSE,
                                  error |-> "Missing required fields: userEmail, firstName, lastName, isActive"]])
       ELSE Enter(p, ML_LookupFrom(r, "start"))

\* validation of the license payload, up to the first await
ManageLicenseValidate(p) ==
  \E r \in ManageLicenseRequests :
    /\ Begin(p, "manageLicense", r)
    /\ UNCHANGED world
    /\ IF \/ Falsy(r.userEmail)
          \/ Falsy(r.firstName)
          \/ Falsy(r.lastName)
          \/ r.isActive = Undefined
       THEN Respond(p, [status |-> 400,
                        body |-> [success |-> FALSE,
                                  error |-> "Missing required fields: userEmail, firstName, lastName, isActive"]])
       ELSE Enter(p, ML_LookupFrom(r, "start"))

\* ML_GetById without the `return user` of the successful lookup
ML_GetById_NoReturn(p) ==
  /\ pc[p] = "ml_getById"
  /\ LET key == req[p].entraObjectId
         found == LookupUser(key)
         natural == IF found # {} THEN NoErr ELSE ErrNotFound
     IN \E err \in Outcomes(p, natural) :
          IF err = NoErr
          THEN \E u \in found :
                 /\ Issue(p, natural, err, Call("getUser", key, NoData, err, u.id))
                 /\ local' = [local EXCEPT ![p].user = u]
                 /\ Goto(p, ML_LookupFrom(req[p], "ml_getById"))
          ELSE /\ Issue(p, natural, err, Call("getUser", key, NoData, err, ""))
               /\ Goto(p, ML_LookupFrom(req[p], "ml_getById"))
               /\ UNCHANGED local
  /\ UNCHANGED <<world, handler, req>>

\* OPTION 1: GET /users/{entraObjectId}; any failure falls through
ML_GetById(p) ==
  /\ pc[p] = "ml_getById"
  /\ LET key == req[p].entraObjectId
         found == LookupUser(key)
         natural == IF found # {} THEN NoErr ELSE ErrNotFound
     IN \E err \in Outcomes(p, natural) :
          IF err = NoErr
          THEN \E u \in found :
                 /\ Issue(p, natural, err, Call("getUser", key, NoData, err, u.id))
                 /\ local' = [local EXCEPT ![p].user = u]
                 /\ Goto(p, ML_Membership(req[p]))
          ELSE /\ Issue(p, natural, err, Call("getUser", key, NoData, err, ""))
               /\ Goto(p, ML_LookupFrom(req[p], "ml_getById"))
               /\ UNCHANGED local
  /\ UNCHANGED <<world, handler, req>>

\* OPTION 2: GET /users/{entraUPN}; any failure falls through
ML_GetByUPN(p) ==
  /\ pc[p] = "ml_getByUPN"
  /\ LET key == req[p].entraUPN
         found == LookupUser(key)
         natural == IF found # {} THEN NoErr ELSE ErrNotFound
     IN \E err \in Outcomes(p, natural) :
          IF err = NoErr
          THEN \E u \in found :
                 /\ Issue(p, natural, err, Call("getUser", key, NoData, err, u.id))
                 /\ local' = [local EXCEPT ![p].user = u]
                 /\ Goto(p, ML_Membership(req[p]))
          ELSE /\ Issue(p, natural, err, Call("getUser", key, NoData, err, ""))
               /\ Goto(p, ML_LookupFrom(req[p], "ml_getByUPN"))
               /\ UNCHANGED local
  /\ UNCHANGED <<world, handler, req>>

\* the search of a resolver that creates on a miss only when activating
ML_Search_FindOnly(p) ==
  /\ pc[p] = "ml_search"
  /\ LET email == req[p].userEmail
     IN \E err \in Outcomes(p, NoErr) :
          IF err = NoErr
          THEN \E value \in Orderings(MatchEmail(email)) :
                 IF Len(value) > 0
                 THEN /\ Issue(p, NoErr, err,
                               Call("searchUsers", email, NoData, err, Ids(value)))
                      /\ local' = [local EXCEPT ![p].user = TakeIndex0(value)]
                      /\ Goto(p, ML_Membership(req[p]))
                 ELSE /\ Issue(p, NoErr, err,
                               Call("searchUsers", email, NoData, err, <<>>))
                      /\ IF req[p].isActive = "true"
                         THEN Goto(p, "ml_invite")
                         ELSE Respond(p, ManageLicenseErrorResponse(ErrNotFound))
                      /\ UNCHANGED local
          ELSE /\ Issue(p, NoErr, err, Call("searchUsers", email, NoData, err, <<>>))
               /\ Respond(p, ManageLicenseErrorResponse(err))
               /\ UNCHANGED local
  /\ UNCHANGED <<world, handler, req>>

\* OPTION 3: GET /users?$filter=...; the element at index 0 is taken
ML_Search(p) ==
  /\ pc[p] = "ml_search"
  /\ LET email == req[p].userEmail
     IN \E err \in Outcomes(p, NoErr) :
          IF err = NoErr
          THEN \E value \in Orderings(MatchEmail(email)) :
                 IF Len(value) > 0
                 THEN /\ Issue(p, NoErr, err,
                               Call("searchUsers", email, NoData, err, Ids(value)))
                      /\ local' = [local EXCEPT ![p].user = TakeIndex0(value)]
                      /\ Goto(p, ML_Membership(req[p]))
                 ELSE /\ Issue(p, NoErr, err,
                               Call("searchUsers", email, NoData, err, <<>>))
                      /\ Goto(p, "ml_invite")
                      /\ UNCHANGED local
          ELSE /\ Issue(p, NoErr, err, Call("searchUsers", email, NoData, err, <<>>))
               /\ Respond(p, ManageLicenseErrorResponse(err))
               /\ UNCHANGED local
  /\ UNCHANGED <<world, handler, req>>

\* OPTION 4: POST /invitations; the record returned is built from the answer
ML_Invite(p) ==
  /\ pc[p] = "ml_invite"
  /\ guests < MaxGuests
  /\ LET email == req[p].userEmail
         name == FullName(req[p].firstName, req[p].lastName)
         invitation == [invitedUser |-> [id |-> GuestIds[guests + 1]],
                        invitedUserEmailAddress |-> email]
         created == [id |-> invitation.invitedUser.id,
                     userPrincipalName |-> GuestUpn(email),
                     mail |-> email, displayName |-> name]
     IN \E err \in Outcomes(p, NoErr) :
          IF err = NoErr
          THEN /\ Issue(p, NoErr, err,
                        Call("invite", email, [invitedUserEmailAddress |-> email, invitedUserDisplayName |-> name], err, invitation.invitedUser.id))
               /\ directory' = directory \cup {created}
               /\ guests' = guests + 1
               /\ local' = [local EXCEPT ![p].user =
                              [id |-> invitation.invitedUser.id,
                               userPrincipalName |-> invitation.invitedUserEmailAddress,
                               mail |-> email,
                               displayName |-> name]]
               /\ Goto(p, ML_Membership(req[p]))
          ELSE /\ Issue(p, NoErr, err, Call("invite", email, [invitedUserEmailAddress |-> email, invitedUserDisplayName |-> name], err, ""))
               /\ Respond(p, ManageLicenseErrorResponse(err))
               /\ UNCHANGED <<directory, guests, local>>
  /\ UNCHANGED <<members, handler, req>>

\* what POST /groups/{id}/members/$ref answers for this user
AddMemberAnswer(userId) ==
  IF userId \in members THEN ErrAlreadyExists
  ELSE IF \A u \in directory : u.id # userId THEN ErrNotFound
  ELSE NoErr

\* what DELETE /groups/{id}/members/{userId}/$ref answers for this user
RemoveMemberAnswer(userId) ==
  IF userId \in members THEN NoErr ELSE ErrNotFound

\* ML_AddAbsorbs testing for the conflict status 409 instead of 400
ML_AddAbsorbs_Conflict(error) ==
  /\ error.statusCode = 409
  /\ \/ Includes(error.message, <<"already", "exist">>)
     \/ Includes(error.message, <<"already", "a", "member">>)
     \/ error.code = "Request_BadRequest"

\* the errors addUserToGroup (direct variant) takes for "already a member"
ML_AddAbsorbs(error) ==
  /\ error.statusCode = 400
  /\ \/ Includes(error.message, <<"already", "exist">>)
     \/ Includes(error.message, <<"already", "a", "member">>)
     \/ error.code = "Request_BadRequest"

\* ML_RemoveAbsorbs with the 404 test left out
ML_RemoveAbsorbs_None(error) == FALSE

\* the errors removeUserFromGroup (direct variant) takes for "not a member"
ML_RemoveAbsorbs(error) == error.statusCode = 404

\* addUserToGroup: POST /groups/{id}/members/$ref
ML_AddUserToGroup(p) ==
  /\ pc[p] = "ml_add"
  /\ LET userId == local[p].user.id
         natural == AddMemberAnswer(userId)
     IN \E err \in Outcomes(p, natural) :
          /\ Issue(p, natural, err, Call("addMember", userId, NoData, err, ""))
          /\ members' = IF err = NoErr THEN members \cup {userId} ELSE members
          /\ IF err = NoErr \/ ML_AddAbsorbs(err)
             THEN Respond(p, ManageLicenseOk(req[p], local[p].user))
             ELSE Respond(p, ManageLicenseErrorResponse(err))
  /\ UNCHANGED <<directory, guests, handler, req, local>>

\* removeUserFromGroup: DELETE /groups/{id}/members/{userId}/$ref
ML_RemoveUserFromGroup(p) ==
  /\ pc[p] = "ml_remove"
  /\ LET userId == local[p].user.id
         natural == RemoveMemberAnswer(userId)
     IN \E err \in Outcomes(p, natural) :
          /\ Issue(p, natural, err, Call("removeMember", userId, NoData, err, ""))
          /\ members' = IF err = NoErr THEN members \ {userId} ELSE members
          /\ IF err = NoErr \/ ML_RemoveAbsorbs(err)
             THEN Respond(p, ManageLicenseOk(req[p], local[p].user))
             ELSE Respond(p, ManageLicenseErrorResponse(err))
  /\ UNCHANGED <<directory, guests, handler, req, local>>

(* ------------------------------------------------------------------ *)
(* sendEmail/index.ts, second half: license management, pre-check     *)
(* variant                                                            *)
(* ------------------------------------------------------------------ *)
PreCheckRequests ==
  [hasBody : {TRUE},
   userEmail : {Undefined, "a@b.com", "c@d.com"},
   firstName : {Undefined, "Ann"},
   lastName : {Undefined, "Lee"},
   isActive : {Undefined, "true", "false"}]
  \cup
  [hasBody : {FALSE}, userEmail : {Undefined}, firstName : {Undefined},
   lastName : {Undefined}, isActive : {Undefined}]

\* the status mapping of the pre-check variant's catch block
PreCheckErrorStatus(error) ==
  IF error.statusCode = 401 THEN 401
  ELSE IF error.statusCode = 403 THEN 403
  ELSE IF error.statusCode = 404 THEN 404
  ELSE 500

PreCheckErrorResponse(error) ==
  [status |-> PreCheckErrorStatus(error),
   body |-> [success |-> FALSE, error |-> "Failed to manage license",
             details |-> error.message, timestamp |-> "now"]]

PreCheckOk(r, user) ==
  [status |-> 200,
   body |-> [success |-> TRUE,
             action |-> IF r.isActive = "true" THEN "added" ELSE "removed",
             userEmail |-> user.userPrincipalName,
             userId |-> user.id,
             groupId |-> OFFICE365_E1_GROUP_ID,
             timestamp |-> "now"]]

PC_Membership(r) == IF r.isActive = "true" THEN "pc_addCheck" ELSE "pc_removeCheck"

\* validation of the license payload, up to the first await
PreCheckValidate(p) ==
  \E r \in PreCheckRequests :
    /\ Begin(p, "manageLicensePreCheck", r)
    /\ UNCHANGED world
    /\ IF ~r.hasBody
       THEN Respond(p, [status |-> 400,
                        body |-> [success |-> FALSE,
                                  error |-> "Request body is required"]])
       ELSE IF \/ Falsy(r.userEmail)
               \/ Falsy(r.firstName)
               \/ Falsy(r.lastName)
               \/ r.isActive = Undefined
       THEN Respond(p, [status |-> 400,
                        body |-> [success |-> FALSE,
                                  error |-> "Missing required fields: userEmail, firstName, lastName, isActive"]])
       ELSE Enter(p, "pc_search")

\* findOrCreateUser: GET /users?$filter=...&$select=...
PC_Search(p) ==
  /\ pc[p] = "pc_search"
  /\ LET email == req[p].userEmail
     IN \E err \in Outcomes(p, NoErr) :
          IF err = NoErr
          THEN \E value \in Orderings(MatchEmail(email)) :
                 IF Len(value) > 0
                 THEN /\ Issue(p, NoErr, err,
                               Call("searchUsers", email, NoData, err, Ids(value)))
                      /\ local' = [local EXCEPT ![p].user = TakeIndex0(value)]
                      /\ Goto(p, PC_Membership(req[p]))
                 ELSE /\ Issue(p, NoErr, err,
                               Call("searchUsers", email, NoData, err, <<>>))
                      /\ Goto(p, "pc_invite")
                      /\ UNCHANGED local
          ELSE /\ Issue(p, NoErr, err, Call("searchUsers", email, NoData, err, <<>>))
               /\ Respond(p, PreCheckErrorResponse(err))
               /\ UNCHANGED local
  /\ UNCHANGED <<world, handler, req>>

\* findOrCreateUser: POST /invitations
PC_Invite(p) ==
  /\ pc[p] = "pc_invite"
  /\ guests < MaxGuests
  /\ LET email == req[p].userEmail
         name == FullName(req[p].firstName, req[p].lastName)
         invitation == [invitedUser |-> [id |-> GuestIds[guests + 1]],
                        invitedUserEmailAddress |-> email]
         created == [id |-> invitation.invitedUser.id,
                     userPrincipalName |-> GuestUpn(email),
                     mail |-> email, displayName |-> name]
     IN \E err \in Outcomes(p, NoErr) :
          IF err = NoErr
          THEN /\ Issue(p, NoErr, err,
                        Call("invite", email,
                             [invitedUserEmailAddress |-> email,
                              invitedUserDisplayName |-> name],
                             err, invitation.invitedUser.id))
               /\ directory' = directory \cup {created}
               /\ guests' = guests + 1
               /\ local' = [local EXCEPT ![p].user =
                              [id |-> invitation.invitedUser.id,
                               userPrincipalName |-> invitation.invitedUserEmailAddress,
                               mail |-> email,
                               displayName |-> name]]
               /\ Goto(p, PC_Membership(req[p]))
          ELSE /\ Issue(p, NoErr, err,
                        Call("invite", email,
                             [invitedUserEmailAddress |-> email,
                              invitedUserDisplayName |-> name],
                             err, ""))
               /\ Respond(p, PreCheckErrorResponse(err))
               /\ UNCHANGED <<directory, guests, local>>
  /\ UNCHANGED <<members, handler, req>>

\* PC_AddAbsorbs taking no error for "already a member"
PC_AddAbsorbs_None(error) == FALSE

\* the errors addUserToGroup (pre-check variant) takes for "already a member"
PC_AddAbsorbs(error) ==
  /\ error.statusCode = 400
  /\ Includes(error.message, <<"already", "exist">>)

\* the errors removeUserFromGroup (pre-check variant) takes for "not a member"
PC_RemoveAbsorbs(error) == error.statusCode = 404

\* addUserToGroup: GET /groups/{id}/members?$filter=id eq '{userId}'
PC_AddCheck(p) ==
  /\ pc[p] = "pc_addCheck"
  /\ LET userId == local[p].user.id
     IN \E err \in Outcomes(p, NoErr) :
          /\ Issue(p, NoErr, err,
                   Call("listMembers", userId, NoData, err,
                        IF err = NoErr /\ userId \in members THEN userId ELSE ""))
          /\ IF err = NoErr
             THEN IF userId \in members
                  THEN Respond(p, PreCheckOk(req[p], local[p].user))
                  ELSE Goto(p, "pc_addPost")
             ELSE IF PC_AddAbsorbs(err)
                  THEN Respond(p, PreCheckOk(req[p], local[p].user))
                  ELSE Respond(p, PreCheckErrorResponse(err))
  /\ UNCHANGED <<world, handler, req, local>>

\* addUserToGroup: POST /groups/{id}/members/$ref
PC_AddPost(p) ==
  /\ pc[p] = "pc_addPost"
  /\ LET userId == local[p].user.id
         natural == AddMemberAnswer(userId)
     IN \E err \in Outcomes(p, natural) :
          /\ Issue(p, natural, err, Call("addMember", userId, NoData, err, ""))
          /\ members' = IF err = NoErr THEN members \cup {userId} ELSE members
          /\ IF err = NoErr \/ PC_AddAbsorbs(err)
             THEN Respond(p, PreCheckOk(req[p], local[p].user))
             ELSE Respond(p, PreCheckErrorResponse(err))
  /\ UNCHANGED <<directory, guests, handler, req, local>>

\* removeUserFromGroup: GET /groups/{id}/members?$filter=id eq '{userId}'
PC_RemoveCheck(p) ==
  /\ pc[p] = "pc_removeCheck"
  /\ LET userId == local[p].user.id
     IN \E err \in Outcomes(p, NoErr) :
          /\ Issue(p, NoErr, err,
                   Call("listMembers", userId, NoData, err,
                        IF err = NoErr /\ userId \in members THEN userId ELSE ""))
          /\ IF err = NoErr
             THEN IF userId \notin members
                  THEN Respond(p, PreCheckOk(req[p], local[p].user))
                  ELSE Goto(p, "pc_removeDelete")
             ELSE IF PC_RemoveAbsorbs(err)
                  THEN Respond(p, PreCheckOk(req[p], local[p].user))
                  ELSE Respond(p, PreCheckErrorResponse(err))
  /\ UNCHANGED <<world, handler, req, local>>

\* removeUserFromGroup: DELETE /groups/{id}/members/{userId}/$ref
PC_RemoveDelete(p) ==
  /\ pc[p] = "pc_removeDelete"
  /\ LET userId == local[p].user.id
         natural == RemoveMemberAnswer(userId)
     IN \E err \in Outcomes(p, natural) :
          /\ Issue(p, natural, err, Call("removeMember", userId, NoData, err, ""))
          /\ members' = IF err = NoErr THEN members \ {userId} ELSE members
          /\ IF err = NoErr \/ PC_RemoveAbsorbs(err)
             THEN Respond(p, PreCheckOk(req[p], local[p].user))
             ELSE Respond(p, PreCheckErrorResponse(err))
  /\ UNCHANGED <<directory, guests, handler, req, local>>

(* ------------------------------------------------------------------ *)
(* resetFreelancerPassword.ts                                         *)
(* ------------------------------------------------------------------ *)
ResetRequests ==
  [userPrincipalName : {Undefined, "u1@egg-events.com", "gone@egg-events.com"},
   userId : {Undefined, "u2"},
   firstName : {Undefined, "Ann"},
   lastName : {Undefined, "Lee"},
   personalEmail : {Undefined, "a@b.com"}]

\* values generateSecurePassword can return
Passwords == {"Qx7!hTmA2pLw9$eR", "b#4KzN8vYc1&Gd6s"}

\* the status mapping of resetFreelancerPassword's catch block
ResetErrorStatus(error) ==
  IF error.code = "Request_ResourceNotFound" THEN 404
  ELSE IF error.statusCode = 401 \/ error.code = "InvalidAuthenticationToken" THEN 401
  ELSE IF error.statusCode = 403 THEN 403
  ELSE IF error.statusCode = 429 THEN 429
  ELSE 500

ResetErrorResponse(error) ==
  [status |-> ResetErrorStatus(error),
   body |-> [success |-> FALSE,
             error |-> "An unexpected error occurred while resetting the password.",
             details |-> error.message, timestamp |-> "now"]]

\* validation of the reset payload, up to the first await
ResetValidate(p) ==
  \E r \in ResetRequests :
    /\ Begin(p, "resetFreelancerPassword", r)
    /\ UNCHANGED world
    /\ IF \/ (Falsy(r.userPrincipalName) /\ Falsy(r.userId))
          \/ Falsy(r.firstName)
          \/ Falsy(r.lastName)
          \/ Falsy(r.personalEmail)
       THEN Respond(p, [status |-> 400,
                        body |-> [success |-> FALSE,
                                  error |-> "Missing required fields: (userPrincipalName OR userId), firstName, lastName, personalEmail"]])
       ELSE Enter(p, "rp_lookup")

\* RP_Lookup preferring userId to userPrincipalName
RP_Lookup_IdFirst(p) ==
  /\ pc[p] = "rp_lookup"
  /\ LET userIdentifier == OrElse(req[p].userId, req[p].userPrincipalName)
         found == LookupUser(userIdentifier)
         natural == IF found # {} THEN NoErr ELSE ErrNotFound
     IN \E err \in Outcomes(p, natural) :
          IF err = NoErr
          THEN \E u \in found, pw \in Passwords :
                 /\ Issue(p, natural, err,
                          Call("getUser", userIdentifier, NoData, err, u.id))
                 /\ local' = [local EXCEPT ![p].user = u, ![p].newPassword = pw]
                 /\ Goto(p, "rp_patch")
          ELSE /\ Issue(p, natural, err,
                        Call("getUser", userIdentifier, NoData, err, ""))
               /\ UNCHANGED local
               /\ IF err.statusCode = 404
                  THEN Respond(p, [status |-> 404,
                                   body |-> [success |-> FALSE,
                                             error |-> "User not found",
                                             details |-> <<"No", "user", "found", "with", "identifier", userIdentifier>>,
                                             timestamp |-> "now"]])
                  ELSE Respond(p, ResetErrorResponse(err))
  /\ UNCHANGED <<world, handler, req>>

\* GET /users/{userIdentifier}, then generateSecurePassword
RP_Lookup(p) ==
  /\ pc[p] = "rp_lookup"
  /\ LET userIdentifier == OrElse(req[p].userPrincipalName, req[p].userId)
         found == LookupUser(userIdentifier)
         natural == IF found # {} THEN NoErr ELSE ErrNotFound
     IN \E err \in Outcomes(p, natural) :
          IF err = NoErr
          THEN \E u \in found, pw \in Passwords :
                 /\ Issue(p, natural, err,
                          Call("getUser", userIdentifier, NoData, err, u.id))
                 /\ local' = [local EXCEPT ![p].user = u, ![p].newPassword = pw]
                 /\ Goto(p, "rp_patch")
          ELSE /\ Issue(p, natural, err,
                        Call("getUser", userIdentifier, NoData, err, ""))
               /\ UNCHANGED local
               /\ IF err.statusCode = 404
                  THEN Respond(p, [status |-> 404,
                                   body |-> [success |-> FALSE,
                                             error |-> "User not found",
                                             details |-> <<"No", "user", "found", "with", "identifier", userIdentifier>>,
                                             timestamp |-> "now"]])
                  ELSE Respond(p, ResetErrorResponse(err))
  /\ UNCHANGED <<world, handler, req>>

\* the patch with its rejection dropped
RP_Patch_Continue(p) ==
  /\ pc[p] = "rp_patch"
  /\ LET userId == local[p].user.id
     IN \E err \in Outcomes(p, NoErr) :
          /\ Issue(p, NoErr, err,
                   Call("patchUser", userId,
                        [forceChangePasswordNextSignIn |-> TRUE,
                         password |-> local[p].newPassword],
                        err, ""))
          /\ IF TRUE
             THEN Goto(p, "rp_send")
             ELSE Respond(p, ResetErrorResponse(err))
  /\ UNCHANGED <<world, handler, req, local>>

\* PATCH /users/{user.id} with the new passwordProfile
RP_Patch(p) ==
  /\ pc[p] = "rp_patch"
  /\ LET userId == local[p].user.id
     IN \E err \in Outcomes(p, NoErr) :
          /\ Issue(p, NoErr, err,
                   Call("patchUser", userId,
                        [forceChangePasswordNextSignIn |-> TRUE,
                         password |-> local[p].newPassword],
                        err, ""))
          /\ IF err = NoErr
             THEN Goto(p, "rp_send")
             ELSE Respond(p, ResetErrorResponse(err))
  /\ UNCHANGED <<world, handler, req, local>>

\* sendPasswordResetEmail: POST /users/{SERVICE_ACCOUNT_EMAIL}/sendMail
RP_SendMail(p) ==
  /\ pc[p] = "rp_send"
  /\ \E err \in Outcomes(p, NoErr) :
       /\ Issue(p, NoErr, err,
                Call("sendMail", SERVICE_ACCOUNT_EMAIL,
                     [subject |-> "Your EGG Events Password Has Been Reset",
                      contentType |-> "HTML",
                      content |-> <<local[p].user.userPrincipalName, local[p].newPassword>>,
                      toRecipients |-> <<req[p].personalEmail>>],
                     err, ""))
       /\ IF err = NoErr
          THEN Respond(p, [status |-> 200,
                           body |-> [success |-> TRUE,
                                     newPassword |-> local[p].newPassword,
                                     userPrincipalName |-> local[p].user.userPrincipalName,
                                     timestamp |-> "now"]])
          ELSE Respond(p, ResetErrorResponse(err))
  /\ UNCHANGED <<world, handler, req, local>>

(* ------------------------------------------------------------------ *)
(* handleActivityResponse.ts                                          *)
(* ------------------------------------------------------------------ *)
\* list items of SHAREPOINT_LIST_ID
Items == {"7"}

\* `response` is held as a sequence of characters; <<>> stands for a
\* missing or empty value
ActivityRequests ==
  [response : {<<>>, <<"y","e","s">>, <<"Y","E","S">>, <<"n","o">>, <<"N","o">>,
               <<"m","a","y","b","e">>},
   supplierEmail : {Undefined, "a@b.com"},
   supplierName : {"Uma One"},
   firstName : {Undefined, "Uma"},
   entraObjectId : {Undefined, "u1", "zz"},
   sharePointItemId : {Undefined, "7"},
   requestedByEmail : {Undefined, "boss@egg-events.com"}]

\* the response of handleActivityResponse's catch block
ActivityErrorResponse(error) ==
  [status |-> 500,
   body |-> [success |-> FALSE, error |-> error.message,
             details |-> <<"Error">> \o error.message]]

ActivityOk(action) ==
  [status |-> 200,
   body |-> [success |-> TRUE, action |-> action,
             message |-> IF action = "activity_confirmed"
                         THEN "Activity confirmed and SharePoint updated"
                         ELSE "License removed and manager notified",
             timestamp |-> "now"]]

\* validation of the webhook payload, up to the first await
ActivityValidate(p) ==
  \E r \in ActivityRequests :
    /\ Begin(p, "handleActivityResponse", r)
    /\ UNCHANGED world
    /\ IF \/ Len(r.response) = 0
          \/ Falsy(r.supplierEmail)
          \/ Falsy(r.entraObjectId)
          \/ Falsy(r.sharePointItemId)
       THEN Respond(p, [status |-> 400,
                        body |-> [success |-> FALSE,
                                  error |-> "Missing required fields: response, supplierEmail, entraObjectId, sharePointItemId"]])
       ELSE Enter(p, "ar_site")

\* AR_GetSiteId with the "yes" branch entering the group removal
AR_GetSiteId_YesRemoves(p) ==
  /\ pc[p] = "ar_site"
  /\ LET response == ToLowerCase(req[p].response)
     IN \E err \in Outcomes(p, NoErr) :
          /\ Issue(p, NoErr, err,
                   Call("getSite", SHAREPOINT_SITE_URL, NoData, err,
                        IF err = NoErr THEN SITE_ID ELSE ""))
          /\ IF err = NoErr
             THEN /\ local' = [local EXCEPT ![p].siteId = SITE_ID,
                                            ![p].response = response]
                  /\ IF response = <<"y","e","s">> THEN Goto(p, "ar_remove")
                     ELSE IF response = <<"n","o">> THEN Goto(p, "ar_remove")
                     ELSE Respond(p, [status |-> 400,
                                      body |-> [success |-> FALSE,
                                                error |-> "Invalid response value. Expected 'yes' or 'no'."]])
             ELSE /\ UNCHANGED local
                  /\ Respond(p, ActivityErrorResponse(err))
  /\ UNCHANGED <<world, handler, req>>

\* getSharePointSiteId: GET /sites/{hostname}:{sitePath}, then the branch
\* on the lower-cased response
AR_GetSiteId(p) ==
  /\ pc[p] = "ar_site"
  /\ LET response == ToLowerCase(req[p].response)
     IN \E err \in Outcomes(p, NoErr) :
          /\ Issue(p, NoErr, err,
                   Call("getSite", SHAREPOINT_SITE_URL, NoData, err,
                        IF err = NoErr THEN SITE_ID ELSE ""))
          /\ IF err = NoErr
             THEN /\ local' = [local EXCEPT ![p].siteId = SITE_ID,
                                            ![p].response = response]
                  /\ IF response = <<"y","e","s">> THEN Goto(p, "ar_patchYes")
                     ELSE IF response = <<"n","o">> THEN Goto(p, "ar_remove")
                     ELSE Respond(p, [status |-> 400,
                                      body |-> [success |-> FALSE,
                                                error |-> "Invalid response value. Expected 'yes' or 'no'."]])
             ELSE /\ UNCHANGED local
                  /\ Respond(p, ActivityErrorResponse(err))
  /\ UNCHANGED <<world, handler, req>>

\* what PATCH .../items/{itemId}/fields answers
PatchItemAnswer(itemId) == IF itemId \in Items THEN NoErr ELSE ErrNotFound

\* "yes": updateSharePointItem with the activity fields
AR_PatchYes(p) ==
  /\ pc[p] = "ar_patchYes"
  /\ LET itemId == req[p].sharePointItemId
         natural == PatchItemAnswer(itemId)
     IN \E err \in Outcomes(p, natural) :
          /\ Issue(p, natural, err,
                   Call("patchItem", itemId,
                        [supplierdb_LastActivityCheck |-> "now",
                         supplierdb_ActivityReminderCount |-> 0,
                         supplierdb_ActivityCheckStatus |-> "Active"],
                        err, ""))
          /\ IF err = NoErr
             THEN Goto(p, "ar_confirm")
             ELSE Respond(p, ActivityErrorResponse(err))
  /\ UNCHANGED <<world, handler, req, local>>

\* sendConfirmationEmail with a catch block that rethrows
AR_SendConfirmation_Rethrow(p) ==
  /\ pc[p] = "ar_confirm"
  /\ \E err \in Outcomes(p, NoErr) :
       /\ Issue(p, NoErr, err,
                Call("sendMail", SERVICE_ACCOUNT_EMAIL,
                     [subject |-> "Thank you - Activity Confirmed",
                      contentType |-> "HTML",
                      content |-> <<req[p].firstName>>,
                      toRecipients |-> <<req[p].supplierEmail>>],
                     err, ""))
       /\ IF err = NoErr
          THEN Respond(p, ActivityOk("activity_confirmed"))
          ELSE Respond(p, ActivityErrorResponse(err))
  /\ UNCHANGED <<world, handler, req, local>>

\* "yes": sendConfirmationEmail; a failure is logged and dropped
AR_SendConfirmation(p) ==
  /\ pc[p] = "ar_confirm"
  /\ \E err \in Outcomes(p, NoErr) :
       /\ Issue(p, NoErr, err,
                Call("sendMail", SERVICE_ACCOUNT_EMAIL,
                     [subject |-> "Thank you - Activity Confirmed",
                      contentType |-> "HTML",
                      content |-> <<req[p].firstName>>,
                      toRecipients |-> <<req[p].supplierEmail>>],
                     err, ""))
       /\ Respond(p, ActivityOk("activity_confirmed"))
  /\ UNCHANGED <<world, handler, req, local>>

\* AR_RemoveAbsorbs taking every error for "not a member"
AR_RemoveAbsorbs_Any(error) == TRUE

\* the errors removeUserFromGroup (webhook) takes for "not a member"
AR_RemoveAbsorbs(error) == error.statusCode = 404

\* "no": removeUserFromGroup: DELETE /groups/{id}/members/{entraObjectId}/$ref
AR_RemoveUserFromGroup(p) ==
  /\ pc[p] = "ar_remove"
  /\ LET userId == req[p].entraObjectId
         natural == RemoveMemberAnswer(userId)
     IN \E err \in Outcomes(p, natural) :
          /\ Issue(p, natural, err, Call("removeMember", userId, NoData, err, ""))
          /\ members' = IF err = NoErr THEN members \ {userId} ELSE members
          /\ IF err = NoErr \/ AR_RemoveAbsorbs(err)
             THEN Goto(p, "ar_patchNo")
             ELSE Respond(p, ActivityErrorResponse(err))
  /\ UNCHANGED <<directory, guests, handler, req, local>>

\* "no": updateSharePointItem with the removal fields
AR_PatchNo(p) ==
  /\ pc[p] = "ar_patchNo"
  /\ LET itemId == req[p].sharePointItemId
         natural == PatchItemAnswer(itemId)
     IN \E err \in Outcomes(p, natural) :
          /\ Issue(p, natural, err,
                   Call("patchItem", itemId,
                        [supplierdb_SendToEntra |-> FALSE,
                         supplierdb_ActivityCheckStatus |-> "License Removed - User Declined",
                         supplierdb_LicenseRemovedDate |-> "now"],
                        err, ""))
          /\ IF err = NoErr
             THEN IF ~Falsy(req[p].requestedByEmail)
                  THEN Goto(p, "ar_notify")
                  ELSE Respond(p, ActivityOk("license_removed"))
             ELSE Respond(p, ActivityErrorResponse(err))
  /\ UNCHANGED <<world, handler, req, local>>

\* "no": sendManagerNotification; a failure is logged and dropped
AR_SendManagerNotification(p) ==
  /\ pc[p] = "ar_notify"
  /\ \E err \in Outcomes(p, NoErr) :
       /\ Issue(p, NoErr, err,
                Call("sendMail", SERVICE_ACCOUNT_EMAIL,
                     [subject |-> "Freelancer Account Deactivated",
                      contentType |-> "HTML",
                      content |-> <<req[p].supplierName, req[p].supplierEmail>>,
                      toRecipients |-> <<req[p].requestedByEmail>>],
                     err, ""))
       /\ Respond(p, ActivityOk("license_removed"))
  /\ UNCHANGED <<world, handler, req, local>>

Next ==
  \E p \in SeqProcs :
    \/ Finish(p)
    \/ SendEmailValidate(p)
    \/ SendEmailPost(p)
    \/ ManageLicenseValidate(p)
    \/ ML_GetById(p)
    \/ ML_GetByUPN(p)
    \/ ML_Search(p)
    \/ ML_Invite(p)
    \/ ML_AddUserToGroup(p)
    \/ ML_RemoveUserFromGroup(p)
    \/ PreCheckValidate(p)
    \/ PC_Search(p)
    \/ PC_Invite(p)
    \/ PC_AddCheck(p)
    \/ PC_AddPost(p)
    \/ PC_RemoveCheck(p)
    \/ PC_RemoveDelete(p)
    \/ ResetValidate(p)
    \/ RP_Lookup(p)
    \/ RP_Patch(p)
    \/ RP_SendMail(p)
    \/ ActivityValidate(p)
    \/ AR_GetSiteId(p)
    \/ AR_PatchYes(p)
    \/ AR_SendConfirmation(p)
    \/ AR_RemoveUserFromGroup(p)
    \/ AR_PatchNo(p)
    \/ AR_SendManagerNotification(p)

Spec == Init /\ [][Next]_vars

(* ------------------------------------------------------------------ *)
(* concurrent license invocations for one user                        *)
(* ------------------------------------------------------------------ *)
\* the user every racing invocation is about
RaceUser == User1

\* valid license payloads for RaceUser, per handler: the direct variant
\* with or without the object-id hint, the pre-check variant by email
RaceRequests(h) ==
  IF h = "manageLicense"
  THEN [userEmail : {RaceUser.userPrincipalName},
        entraUPN : {Undefined},
        entraObjectId : {Undefined, RaceUser.id},
        firstName : {"Ann"},
        lastName : {"Lee"},
        isActive : {"true", "false"}]
  ELSE [hasBody : {TRUE},
        userEmail : {RaceUser.userPrincipalName},
        firstName : {"Ann"},
        lastName : {"Lee"},
        isActive : {"true", "false"}]

\* the first await of a license handler whose validation passed
FirstAwait(h, r) ==
  IF h = "manageLicense" THEN ML_LookupFrom(r, "start") ELSE "pc_search"

\* the host starts one invocation in every slot; validation passes in each
\* and the services answer every request of the round as their state says
RaceStart ==
  /\ \A p \in Procs : pc[p] = "idle"
  /\ \E hs \in [Procs -> {"manageLicense", "manageLicensePreCheck"}] :
       \E rs \in [Procs -> RaceRequests("manageLicense")
                            \cup RaceRequests("manageLicensePreCheck")] :
         /\ \A p \in Procs : rs[p] \in RaceRequests(hs[p])
         /\ handler' = hs
         /\ req' = rs
         /\ pc' = [p \in Procs |-> FirstAwait(hs[p], rs[p])]
  /\ faults' = [p \in Procs |-> MaxFaults]
  /\ resp' = [p \in Procs |-> NoResp]
  /\ UNCHANGED <<world, calls, tokenCalls, local>>

\* every response of the round has been sent
RaceFinish ==
  /\ \A p \in Procs : pc[p] = "done"
  /\ pc' = [p \in Procs |-> "idle"]
  /\ handler' = [p \in Procs |-> "none"]
  /\ req' = [p \in Procs |-> [none |-> TRUE]]
  /\ calls' = [p \in Procs |-> <<>>]
  /\ tokenCalls' = [p \in Procs |-> 0]
  /\ faults' = [p \in Procs |-> 0]
  /\ local' = [p \in Procs |-> NoLocal]
  /\ resp' = [p \in Procs |-> NoResp]
  /\ UNCHANGED world

\* the remote calls of the running invocations, interleaved in any order
NextRace ==
  \/ RaceStart
  \/ RaceFinish
  \/ \E p \in Procs :
       \/ ML_GetById(p)
       \/ ML_Search(p)
       \/ ML_AddUserToGroup(p)
       \/ ML_RemoveUserFromGroup(p)
       \/ PC_Search(p)
       \/ PC_AddCheck(p)
       \/ PC_AddPost(p)
       \/ PC_RemoveCheck(p)
       \/ PC_RemoveDelete(p)

SpecRace == Init /\ [][NextRace]_vars

(* ------------------------------------------------------------------ *)
(* Properties                                                         *)
(* ------------------------------------------------------------------ *)
Started(p) == pc[p] # "idle"
Done(p) == pc[p] = "done"
Last(p) == calls[p][Len(calls[p])]
Ops(p) == [i \in DOMAIN calls[p] |-> calls[p][i].op]
AllSucceeded(p) == \A i \in DOMAIN calls[p] : calls[p][i].err = NoErr
CountOp(p, op) == Cardinality({i \in DOMAIN calls[p] : calls[p][i].op = op})

\* a string field that is absent or empty
Missing(x) == x \in {Undefined, ""}

\* the payload lacks a field the endpoint requires
MissingRequired(h, r) ==
  CASE h = "sendEmail" ->
         \/ ~r.hasBody
         \/ ~r.hasRecipients
         \/ Len(r.recipients) = 0
         \/ Len(r.recipients) > 50
         \/ Missing(r.from) \/ r.subject = <<>> \/ r.body = <<>>
    [] h = "manageLicense" ->
         \/ Missing(r.userEmail) \/ Missing(r.firstName) \/ Missing(r.lastName)
         \/ r.isActive \notin {"true", "false"}
    [] h = "manageLicensePreCheck" ->
         \/ ~r.hasBody
         \/ Missing(r.userEmail) \/ Missing(r.firstName) \/ Missing(r.lastName)
         \/ r.isActive \notin {"true", "false"}
    [] h = "resetFreelancerPassword" ->
         \/ (Missing(r.userPrincipalName) /\ Missing(r.userId))
         \/ Missing(r.firstName) \/ Missing(r.lastName) \/ Missing(r.personalEmail)
    [] h = "handleActivityResponse" ->
         \/ r.response = <<>>
         \/ Missing(r.supplierEmail) \/ Missing(r.entraObjectId)
         \/ Missing(r.sharePointItemId)
    [] OTHER -> FALSE

YesSpellings == {<<a, b, c>> : a \in {"y", "Y"}, b \in {"e", "E"}, c \in {"s", "S"}}
NoSpellings == {<<a, b>> : a \in {"n", "N"}, b \in {"o", "O"}}

C2_InvalidResponseBeforeRemote ==
  \A p \in Procs :
    ( /\ Started(p)
      /\ handler[p] = "handleActivityResponse"
      /\ ~MissingRequired(handler[p], req[p])
      /\ req[p].response \notin (YesSpellings \cup NoSpellings) ) =>
      /\ calls[p] = <<>>
      /\ tokenCalls[p] = 0
      /\ Done(p) => resp[p].status = 400

LicenseHandlers == {"manageLicense", "manageLicensePreCheck"}

\* C3: addUserToGroup is idempotent in both variants: when the directory
\* answers as its state dictates, an activation ends 200 "added" with the
\* user a member of the group, whether or not the user was a member before;
\* the "already exist" answer to the create-relationship request is not
\* surfaced.
C3_AddIdempotent ==
  \A p \in Procs :
    ( /\ Done(p)
      /\ handler[p] \in LicenseHandlers
      /\ ~MissingRequired(handler[p], req[p])
      /\ req[p].isActive = "true"
      /\ faults[p] = 0 ) =>
      /\ resp[p].status = 200
      /\ resp[p].body.success = TRUE
      /\ resp[p].body.action = "added"
      /\ resp[p].body.userId \in members
      /\ Last(p).op \in {"addMember", "listMembers"}
      /\ Last(p).arg = resp[p].body.userId
      /\ Last(p).err \in {NoErr, ErrAlreadyExists}

\* the direct variant added a user who was a member already: the
\* create-relationship request was refused with "already exist" and the
\* response is 200
C3_Witness ==
  \E p \in Procs :
    /\ Done(p)
    /\ calls[p] # <<>>
    /\ handler[p] = "manageLicense"
    /\ faults[p] = 0
    /\ Last(p).op = "addMember"
    /\ Last(p).err = ErrAlreadyExists
    /\ Last(p).arg \in members
    /\ resp[p].status = 200

\* the removal found the user not to be a member
NotAMember(p) ==
  /\ calls[p] # <<>>
  /\ \/ Last(p).op = "removeMember" /\ Last(p).err.statusCode = 404
     \/ /\ Last(p).op = "listMembers" /\ Last(p).err = NoErr /\ Last(p).ret = ""
        /\ req[p].isActive = "false"

\* a request of the removal (the delete, the membership query before it, or
\* the token for either) failed with something other than 404
RemoveFailed(p) ==
  /\ calls[p] # <<>>
  /\ Last(p).err # NoErr
  /\ Last(p).err.statusCode # 404
  /\ \/ Last(p).op = "removeMember"
     \/ Last(p).op = "listMembers" /\ req[p].isActive = "false"
     \/ /\ Last(p).op = "getToken"
        /\ \/ Last(p).arg = "removeMember"
           \/ Last(p).arg = "listMembers" /\ req[p].isActive = "false"

\* C4: removeUserFromGroup is idempotent in its three copies: when the user
\* is not a member (the delete answers 404, or the pre-check lists nobody)
\* it returns normally, so the license handlers answer 200 "removed" and the
\* webhook goes on to the record patch; any other failure of the delete is
\* thrown on and ends the invocation with a failure response.
C4_RemoveIdempotent ==
  \A p \in Procs :
    /\ NotAMember(p) =>
         IF handler[p] = "handleActivityResponse"
         THEN pc[p] = "ar_patchNo" /\ resp[p] = NoResp
         ELSE /\ Done(p)
              /\ resp[p].status = 200
              /\ resp[p].body.action = "removed"
    /\ RemoveFailed(p) =>
         /\ Done(p)
         /\ resp[p].status \notin {200, 404}
         /\ resp[p].body.success = FALSE

\* the direct variant removed a user who was not a member: the delete was
\* answered 404 by the directory and the response is 200
C4_Witness ==
  \E p \in Procs :
    /\ Done(p)
    /\ calls[p] # <<>>
    /\ handler[p] = "manageLicense"
    /\ faults[p] = 0
    /\ Last(p).op = "removeMember"
    /\ Last(p).err = ErrNotFound
    /\ Last(p).arg \notin members
    /\ resp[p].status = 200

\* a conflict-class error whose message says the relationship exists
SaysAlreadyExists(error) ==
  /\ error.statusCode \in {400, 409}
  /\ \/ Includes(error.message, <<"already", "exist">>)
     \/ Includes(error.message, <<"already", "a", "member">>)

\* C5: addUserToGroup absorbs a failure of the create-relationship request
\* only if it is a conflict-class error whose message says the relationship
\* already exists; every other failure of that request ends the invocation
\* with a response other than 200.
C5_AddAbsorbsOnlyAlreadyExists ==
  \A p \in Procs :
    ( /\ handler[p] \in LicenseHandlers
      /\ calls[p] # <<>>
      /\ Last(p).op = "addMember"
      /\ Last(p).err # NoErr
      /\ ~SaysAlreadyExists(Last(p).err) ) =>
      /\ Done(p)
      /\ resp[p].status # 200

\* C6: in findOrCreateUser, when the object-id hint is present and the
\* lookup by id succeeds, that user is the one returned and the invocation
\* issues no lookup by principal name, no search and no invitation.
C6_IdHintShortCircuits ==
  \A p \in Procs :
    ( /\ handler[p] = "manageLicense"
      /\ calls[p] # <<>>
      /\ calls[p][1].op = "getUser"
      /\ calls[p][1].arg = req[p].entraObjectId
      /\ calls[p][1].err = NoErr ) =>
      /\ local[p].user.id = calls[p][1].ret
      /\ \E u \in directory : u = local[p].user /\ u.id = req[p].entraObjectId
      /\ \A i \in 2..Len(calls[p]) :
           /\ calls[p][i].op \in {"addMember", "removeMember", "getToken"}
           /\ calls[p][i].op = "getToken" =>
                calls[p][i].arg \in {"addMember", "removeMember"}
           /\ calls[p][i].op # "getToken" => calls[p][i].arg = req[p].entraObjectId
      /\ Done(p) /\ resp[p].status = 200 =>
           resp[p].body.userId = req[p].entraObjectId

\* a license request with an object-id hint and a principal-name hint was
\* resolved by the id lookup and answered 200
C6_Witness ==
  \E p \in Procs :
    /\ Done(p)
    /\ calls[p] # <<>>
    /\ handler[p] = "manageLicense"
    /\ ~Missing(req[p].entraObjectId) /\ ~Missing(req[p].entraUPN)
    /\ calls[p][1].op = "getUser" /\ calls[p][1].err = NoErr
    /\ Len(calls[p]) = 2
    /\ resp[p].status = 200

\* the filtered search of this invocation returned an empty set
SearchEmpty(p) ==
  \E i \in DOMAIN calls[p] :
    /\ calls[p][i].op = "searchUsers"
    /\ calls[p][i].err = NoErr
    /\ calls[p][i].ret = <<>>

\* the invitation request of this invocation, once it was answered
Invited(p) ==
  {i \in DOMAIN calls[p] : calls[p][i].op = "invite" /\ calls[p][i].err = NoErr}

\* C7: in findOrCreateUser (both variants), when no lookup found a user and
\* the search returned an empty set, one invitation request is made and no
\* second one; when it succeeds the record returned has the invited user's
\* id, the input email as principal name and "firstName lastName" as
\* display name.
C7_InviteOnMiss ==
  \A p \in Procs :
    ( /\ handler[p] \in LicenseHandlers
      /\ SearchEmpty(p)
      /\ pc[p] \notin {"ml_invite", "pc_invite"} ) =>
      /\ CountOp(p, "invite") <= 1
      /\ \A i \in DOMAIN calls[p] :
           (calls[p][i].op = "searchUsers" /\ calls[p][i].err = NoErr) =>
             /\ Len(calls[p]) > i
             /\ \/ calls[p][i + 1].op = "invite" /\ calls[p][i + 1].arg = req[p].userEmail
                \/ calls[p][i + 1].op = "getToken" /\ calls[p][i + 1].arg = "invite"
             /\ \A j \in DOMAIN calls[p] : calls[p][j].op = "invite" => j = i + 1
      /\ \A i \in Invited(p) :
           /\ local[p].user.id = calls[p][i].ret
           /\ \E u \in directory : u.id = local[p].user.id /\ u.mail = req[p].userEmail
           /\ local[p].user.userPrincipalName = req[p].userEmail
           /\ local[p].user.displayName = <<req[p].firstName, " ", req[p].lastName>>
           /\ calls[p][i].data.invitedUserDisplayName = local[p].user.displayName

\* both lookups of the direct variant failed, the search was empty, the
\* invitation succeeded and the request was answered 200
C7_Witness ==
  \E p \in Procs :
    /\ Done(p)
    /\ handler[p] = "manageLicense"
    /\ Ops(p) = <<"getUser", "getUser", "searchUsers", "invite", "addMember">>
    /\ calls[p][1].err # NoErr /\ calls[p][2].err # NoErr
    /\ Invited(p) = {4}
    /\ resp[p].status = 200
    /\ resp[p].body.userPrincipalName = "c@d.com"

\* C8: a license request with userEmail, firstName, lastName, isActive=true
\* and no hints, for an email no user matches, with the directory answering
\* as its state dictates, issues the search, then one invitation, then one
\* group add, and nothing else, and is answered 200 "added" with the
\* invited user's id.
C8_EndToEndAdd ==
  \A p \in Procs :
    ( /\ Done(p)
      /\ handler[p] = "manageLicense"
      /\ ~MissingRequired(handler[p], req[p])
      /\ Missing(req[p].entraObjectId) /\ Missing(req[p].entraUPN)
      /\ req[p].isActive = "true"
      /\ faults[p] = 0
      /\ SearchEmpty(p) ) =>
      /\ Ops(p) = <<"searchUsers", "invite", "addMember">>
      /\ AllSucceeded(p)
      /\ calls[p][3].arg = calls[p][2].ret
      /\ resp[p].status = 200
      /\ resp[p].body.success = TRUE
      /\ resp[p].body.action = "added"
      /\ resp[p].body.userId = calls[p][2].ret
      /\ resp[p].body.userId \in members

\* such a request for c@d.com has been answered 200
C8_Witness ==
  \E p \in Procs :
    /\ Done(p)
    /\ handler[p] = "manageLicense"
    /\ Missing(req[p].entraObjectId) /\ Missing(req[p].entraUPN)
    /\ req[p].isActive = "true"
    /\ req[p].userEmail = "c@d.com"
    /\ faults[p] = 0
    /\ SearchEmpty(p)
    /\ resp[p].status = 200

\* C9: an activity webhook with response "no" in any letter case whose
\* Graph requests all succeed issues, after the site lookup, the group
\* removal for entraObjectId, the record patch for sharePointItemId and,
\* if requestedByEmail is present, the manager notification, in that
\* order, and is answered 200 "license_removed"; without requestedByEmail
\* no mail is sent.
C9_EndToEndDecline ==
  \A p \in Procs :
    ( /\ Done(p)
      /\ handler[p] = "handleActivityResponse"
      /\ ~MissingRequired(handler[p], req[p])
      /\ req[p].response \in NoSpellings
      /\ AllSucceeded(p) ) =>
      /\ resp[p].status = 200
      /\ resp[p].body.success = TRUE
      /\ resp[p].body.action = "license_removed"
      /\ IF Missing(req[p].requestedByEmail)
         THEN Ops(p) = <<"getSite", "removeMember", "patchItem">>
         ELSE /\ Ops(p) = <<"getSite", "removeMember", "patchItem", "sendMail">>
              /\ calls[p][4].data.toRecipients = <<req[p].requestedByEmail>>
      /\ calls[p][2].arg = req[p].entraObjectId
      /\ calls[p][3].arg = req[p].sharePointItemId
      /\ calls[p][3].data.supplierdb_ActivityCheckStatus = "License Removed - User Declined"

\* a decline spelled "No" with requestedByEmail present has been answered
\* 200 after four successful requests
C9_Witness ==
  \E p \in Procs :
    /\ Done(p)
    /\ handler[p] = "handleActivityResponse"
    /\ req[p].response = <<"N", "o">>
    /\ ~Missing(req[p].requestedByEmail)
    /\ AllSucceeded(p)
    /\ Len(calls[p]) = 4
    /\ resp[p].status = 200

\* the status the mapping table gives a remote status code
TableStatus(statusCode) ==
  IF statusCode \in {401, 403, 404, 429} THEN statusCode ELSE 500

\* C10: in the send-mail handler and in both license handlers an error
\* caught at top level is answered with the status the table gives its
\* remote status code: 401, 403, 404 and 429 unchanged, anything else 500.
C10_ErrorMapping ==
  \A p \in Procs :
    ( /\ Done(p)
      /\ handler[p] \in {"sendEmail"} \cup LicenseHandlers
      /\ calls[p] # <<>>
      /\ resp[p].status \notin {200, 400} ) =>
      /\ Last(p).err # NoErr
      /\ resp[p].status = TableStatus(Last(p).err.statusCode)

\* C11: in the password-reset handler a failed Graph request is answered
\* with the status the table gives its remote status code: 401, 403, 404
\* and 429 unchanged, anything else 500, whichever of the lookup, the
\* password patch and the mail send failed.
C11_ResetErrorMapping ==
  \A p \in Procs :
    ( /\ Done(p)
      /\ handler[p] = "resetFreelancerPassword"
      /\ calls[p] # <<>>
      /\ Last(p).err # NoErr ) =>
      /\ resp[p].body.success = FALSE
      /\ resp[p].status = TableStatus(Last(p).err.statusCode)

\* the keys of a response body
Keys(p) == DOMAIN resp[p].body

\* C12: every response carries a boolean success field, and every failure
\* response, the 400 of validation and the webhook's 500 included, also
\* carries error, details and timestamp.
C12_ResponseShape ==
  \A p \in Procs :
    Done(p) =>
      /\ "success" \in Keys(p)
      /\ resp[p].body.success \in BOOLEAN
      /\ resp[p].body.success = FALSE =>
           {"error", "details", "timestamp"} \subseteq Keys(p)

\* the last logged call is a failed mail send (the request itself or the
\* token acquisition for it)
SendFailedLast(p) ==
  /\ calls[p] # <<>>
  /\ Last(p).err # NoErr
  /\ \/ Last(p).op = "sendMail"
     \/ Last(p).op = "getToken" /\ Last(p).arg = "sendMail"

\* C13: in the activity webhook a failed notification send (the
\* confirmation on "yes", the manager notification on "no"), which is only
\* attempted after the record patch / group removal went through, is
\* dropped: the answer is 200, success = true, with the action a
\* successful send gives.
C13_NotificationFailureSwallowed ==
  \A p \in Procs :
    (handler[p] = "handleActivityResponse" /\ SendFailedLast(p)) =>
      /\ Done(p)
      /\ resp[p].status = 200
      /\ resp[p].body.success = TRUE
      /\ resp[p].body.action = IF req[p].response \in YesSpellings
                               THEN "activity_confirmed"
                               ELSE "license_removed"
      /\ \E i \in 1..(Len(calls[p]) - 1) :
           calls[p][i].op = "patchItem" /\ calls[p][i].err = NoErr

\* a confirmation whose mail send was refused has been answered 200
C13_Witness ==
  \E p \in Procs :
    /\ Done(p)
    /\ handler[p] = "handleActivityResponse"
    /\ req[p].response \in YesSpellings
    /\ SendFailedLast(p)
    /\ Last(p).op = "sendMail"
    /\ resp[p].status = 200

\* C14: in the password-reset handler a mail send that fails after the
\* password patch succeeded leaves the answer at 200, success = true.
C14_ResetEmailFailureSwallowed ==
  \A p \in Procs :
    ( /\ handler[p] = "resetFreelancerPassword"
      /\ SendFailedLast(p)
      /\ \E i \in DOMAIN calls[p] :
           calls[p][i].op = "patchUser" /\ calls[p][i].err = NoErr ) =>
      /\ Done(p)
      /\ resp[p].status = 200
      /\ resp[p].body.success = TRUE

\* C15: in the send-mail handler a 200 with success = true is given only
\* when the send request was issued exactly once and went through, with
\* recipientCount the number of recipients of the request; a failed send is
\* never answered 200.
C15_SendIsPrimary ==
  \A p \in Procs :
    (Done(p) /\ handler[p] = "sendEmail") =>
      /\ (resp[p].status = 200 \/ resp[p].body.success = TRUE) =>
           /\ resp[p].status = 200
           /\ resp[p].body.success = TRUE
           /\ Ops(p) = <<"sendMail">>
           /\ calls[p][1].err = NoErr
           /\ calls[p][1].arg = req[p].from
           /\ calls[p][1].data.toRecipients = req[p].recipients
           /\ resp[p].body.recipientCount = Len(req[p].recipients)
      /\ (calls[p] # <<>> /\ Last(p).err # NoErr) =>
           /\ resp[p].status # 200
           /\ resp[p].body.success = FALSE

\* a mail for 50 recipients has been sent once and answered 200 with
\* recipientCount 50
C15_Witness ==
  \E p \in Procs :
    /\ Done(p)
    /\ handler[p] = "sendEmail"
    /\ Ops(p) = <<"sendMail">>
    /\ Last(p).err = NoErr
    /\ Len(req[p].recipients) = MaxRecipients
    /\ resp[p].status = 200
    /\ resp[p].body.recipientCount = 50

\* the text "javascript:" occurs in s in some letter case
ContainsScheme(s) == \E i \in 1..Len(s) : MatchesAt(s, i, PatJavascript)

\* s opens an anchor tag
OpensAnchor(s) == MatchesAt(s, 1, <<"<", "a", " ">>)

\* C17: the content of the message the send-mail handler posts is
\* sanitizeHtml of the request's body and holds no "javascript:" in any
\* letter case, and a body that opens an anchor still opens it.
C17_NoJavascriptScheme ==
  \A p \in Procs :
    \A i \in DOMAIN calls[p] :
      (handler[p] = "sendEmail" /\ calls[p][i].op = "sendMail") =>
        /\ calls[p][i].data.content = sanitizeHtml(req[p].body)
        /\ ~ContainsScheme(calls[p][i].data.content)
        /\ OpensAnchor(req[p].body) => OpensAnchor(calls[p][i].data.content)

\* the strategy of findOrCreateUser the i-th logged call of p belongs to:
\* 1 id lookup, 2 principal-name lookup, 3 filtered search, 4 invitation,
\* 0 for a call made after the resolution
Strategy(p, i) ==
  LET c == calls[p][i]
      op == IF c.op = "getToken" THEN c.arg ELSE c.op
  IN CASE op = "getUser" ->
            IF c.op = "getUser"
            THEN (IF c.arg = req[p].entraObjectId THEN 1 ELSE 2)
            ELSE (IF i = 1 /\ ~Missing(req[p].entraObjectId) THEN 1 ELSE 2)
       [] op = "searchUsers" -> 3
       [] op = "invite" -> 4
       [] OTHER -> 0

\* the i-th logged call of p failed, or was a search that matched nobody
GaveNothing(p, i) ==
  \/ calls[p][i].err # NoErr
  \/ calls[p][i].op = "searchUsers" /\ calls[p][i].ret = <<>>

\* C18: in findOrCreateUser (manageLicense.ts) the strategies are tried in
\* the order id lookup, principal-name lookup, filtered search, invitation;
\* a lookup answered not-found leaves the invocation running at the next
\* strategy; a strategy is tried only when each earlier one had no hint or
\* gave nothing; and the record taken from a search is the one at index 0.
C18_StrategyOrder ==
  \A p \in Procs :
    handler[p] = "manageLicense" =>
      \A i \in DOMAIN calls[p] :
        LET k == Strategy(p, i)
            c == calls[p][i]
        IN k > 0 =>
             /\ \A j \in 1..(i - 1) :
                  Strategy(p, j) \in 1..(k - 1) /\ GaveNothing(p, j)
             /\ k >= 2 => \/ Missing(req[p].entraObjectId)
                          \/ \E j \in 1..(i - 1) : Strategy(p, j) = 1
             /\ k >= 3 => \/ Missing(req[p].entraUPN)
                          \/ \E j \in 1..(i - 1) : Strategy(p, j) = 2
             /\ k = 4 => \E j \in 1..(i - 1) : Strategy(p, j) = 3
             /\ (k \in {1, 2} /\ c.err.statusCode = 404 /\ i = Len(calls[p])) =>
                  /\ resp[p] = NoResp
                  /\ pc[p] = IF k = 1 /\ ~Missing(req[p].entraUPN)
                             THEN "ml_getByUPN"
                             ELSE "ml_search"
             /\ (k = 3 /\ c.err = NoErr /\ c.ret # <<>>) =>
                  /\ local[p].user.id = c.ret[1]
                  /\ (Done(p) /\ resp[p].status = 200) =>
                       resp[p].body.userId = c.ret[1]

\* both lookups were answered not-found, the search returned two records
\* and the invocation was answered 200 for the first of them
C18_Witness ==
  \E p \in Procs :
    /\ Done(p)
    /\ handler[p] = "manageLicense"
    /\ Len(calls[p]) = 4
    /\ Strategy(p, 1) = 1 /\ calls[p][1].err.statusCode = 404
    /\ Strategy(p, 2) = 2 /\ calls[p][2].err.statusCode = 404
    /\ Strategy(p, 3) = 3 /\ calls[p][3].err = NoErr
    /\ calls[p][3].op = "searchUsers"
    /\ Len(calls[p][3].ret) = 2
    /\ resp[p].status = 200
    /\ resp[p].body.userId = calls[p][3].ret[1]

\* C19: in the license endpoint (manageLicense.ts) a Graph request answered
\* 429, the point lookups by id and by principal name included, is the
\* invocation's last request and the invocation is answered 429.
C19_TransientSurfaces ==
  \A p \in Procs :
    handler[p] = "manageLicense" =>
      \A i \in DOMAIN calls[p] :
        calls[p][i].err.statusCode = 429 =>
          /\ i = Len(calls[p])
          /\ Done(p)
          /\ resp[p].status = 429
          /\ resp[p].body.success = FALSE

\* the i-th logged call of p is the request op or the token acquisition
\* for it
IsFor(p, i, op) ==
  \/ calls[p][i].op = op
  \/ calls[p][i].op = "getToken" /\ calls[p][i].arg = op

\* C20: a 200 of the password-reset handler means one lookup, one password
\* patch on the looked-up user's id and one mail to personalEmail were
\* issued in this order and all went through, and the newPassword of the
\* response is the password of the patch and of the mail; after a failed
\* lookup or patch no mail is sent.
C20_ResetSequence ==
  \A p \in Procs :
    handler[p] = "resetFreelancerPassword" =>
      /\ (Done(p) /\ resp[p].status = 200) =>
           /\ Ops(p) = <<"getUser", "patchUser", "sendMail">>
           /\ AllSucceeded(p)
           /\ calls[p][1].arg = OrElse(req[p].userPrincipalName, req[p].userId)
           /\ calls[p][2].arg = calls[p][1].ret
           /\ calls[p][3].data.toRecipients = <<req[p].personalEmail>>
           /\ resp[p].body.newPassword = calls[p][2].data.password
           /\ \E k \in DOMAIN calls[p][3].data.content :
                calls[p][3].data.content[k] = resp[p].body.newPassword
      /\ \A i \in DOMAIN calls[p] :
           ( /\ IsFor(p, i, "getUser") \/ IsFor(p, i, "patchUser")
             /\ calls[p][i].err # NoErr ) =>
             \A j \in DOMAIN calls[p] : ~IsFor(p, j, "sendMail")

\* a reset for a user given by id has been answered 200 after the lookup,
\* the patch and the mail
C20_Witness ==
  \E p \in Procs :
    /\ Done(p)
    /\ handler[p] = "resetFreelancerPassword"
    /\ resp[p].status = 200
    /\ Len(calls[p]) = 3
    /\ calls[p][2].op = "patchUser"
    /\ calls[p][2].arg = "u2"
    /\ calls[p][3].op = "sendMail"
    /\ resp[p].body.newPassword = calls[p][2].data.password

\* every slot holds an answered license invocation with this isActive
RoundOf(active) ==
  \A p \in Procs :
    /\ Done(p)
    /\ handler[p] \in LicenseHandlers
    /\ req[p].isActive = active

\* C16: when concurrent license invocations for one existing user all ask
\* for activation, whatever the interleaving of their requests, each is
\* answered 200 "added" and the user is a member afterwards; when all ask
\* for deactivation each is answered 200 "removed" and the user is not a
\* member afterwards; in the direct and in the pre-check variant.
C16_RacesHarmless ==
  /\ RoundOf("true") =>
       /\ \A p \in Procs :
            /\ resp[p].status = 200
            /\ resp[p].body.success = TRUE
            /\ resp[p].body.action = "added"
            /\ resp[p].body.userId = RaceUser.id
       /\ RaceUser.id \in members
  /\ RoundOf("false") =>
       /\ \A p \in Procs :
            /\ resp[p].status = 200
            /\ resp[p].body.success = TRUE
            /\ resp[p].body.action = "removed"
            /\ resp[p].body.userId = RaceUser.id
       /\ RaceUser.id \notin members

\* two activations raced: the add of one was rejected as a duplicate of the
\* other's, and both were answered 200
C16_Witness ==
  /\ RoundOf("true")
  /\ \E p, q \in Procs :
       /\ p # q
       /\ Last(p).op = "addMember" /\ Last(p).err = NoErr
       /\ Last(q).op = "addMember" /\ Last(q).err = ErrAlreadyExists
       /\ handler[q] = "manageLicensePreCheck"
       /\ resp[p].status = 200 /\ resp[q].status = 200
  /\ RaceUser.id \in members

\* no request of p failed except lookups and the group removal answered 404
OnlyNotFound(p) ==
  \A i \in DOMAIN calls[p] :
    calls[p][i].err # NoErr =>
      /\ calls[p][i].op \in {"getUser", "removeMember"}
      /\ calls[p][i].err.statusCode = 404

\* C21: in manageLicense the resolver creates on a miss whatever isActive
\* is: a deactivation for an email that matches no user ends with the
\* search, one invitation for that email and the group removal for the
\* invited id, whose 404 is taken as done, and is answered 200 "removed".
C21_CreateOnMissWhenRemoving ==
  \A p \in Procs :
    ( /\ Done(p)
      /\ handler[p] = "manageLicense"
      /\ req[p].isActive = "false"
      /\ SearchEmpty(p)
      /\ OnlyNotFound(p) ) =>
      LET n == Len(calls[p])
      IN /\ n >= 3
         /\ calls[p][n - 2].op = "searchUsers"
         /\ calls[p][n - 1].op = "invite"
         /\ calls[p][n - 1].arg = req[p].userEmail
         /\ calls[p][n - 1].err = NoErr
         /\ CountOp(p, "invite") = 1
         /\ calls[p][n].op = "removeMember"
         /\ calls[p][n].arg = calls[p][n - 1].ret
         /\ calls[p][n].err.statusCode = 404
         /\ calls[p][n].arg \notin members
         /\ resp[p].status = 200
         /\ resp[p].body.success = TRUE
         /\ resp[p].body.action = "removed"
         /\ resp[p].body.userId = calls[p][n - 1].ret

\* a deactivation for an unknown email has invited a guest, asked for the
\* guest's removal and been answered 200
C21_Witness ==
  \E p \in Procs :
    /\ Done(p)
    /\ handler[p] = "manageLicense"
    /\ req[p].isActive = "false"
    /\ req[p].userEmail = "c@d.com"
    /\ Ops(p) = <<"searchUsers", "invite", "removeMember">>
    /\ Last(p).err = ErrNotFound
    /\ \E u \in directory : u.id = Last(p).arg /\ u.mail = "c@d.com"
    /\ resp[p].status = 200
    /\ resp[p].body.action = "removed"

\* no logged call of p is the request op or the token acquisition for it
Never(p, op) == \A j \in DOMAIN calls[p] : ~IsFor(p, j, op)

\* C22: in the activity webhook with response "no" nothing is rolled back:
\* a group removal that fails with anything but 404 is the last request
\* (no record patch, no notification) and is answered 500; a record patch
\* that fails after the removal is the last request, is answered 500, and
\* neither a notification nor a request re-adding the user is made.
C22_NoRollback ==
  \A p \in Procs :
    (handler[p] = "handleActivityResponse" /\ req[p].response \in NoSpellings) =>
      \A i \in DOMAIN calls[p] :
        /\ ( /\ IsFor(p, i, "removeMember")
             /\ calls[p][i].err # NoErr
             /\ calls[p][i].err.statusCode # 404 ) =>
             /\ i = Len(calls[p])
             /\ Never(p, "patchItem")
             /\ Never(p, "sendMail")
             /\ Done(p)
             /\ resp[p].status = 500
             /\ resp[p].body.success = FALSE
        /\ ( /\ IsFor(p, i, "patchItem")
             /\ calls[p][i].err # NoErr ) =>
             /\ i = Len(calls[p])
             /\ calls[p][i - 1].op = "removeMember"
             /\ Never(p, "sendMail")
             /\ Never(p, "addMember")
             /\ calls[p][i - 1].err = NoErr => calls[p][i - 1].arg \notin members
             /\ Done(p)
             /\ resp[p].status = 500
             /\ resp[p].body.success = FALSE

\* a decline removed a member from the group, its record patch was refused
\* and it was answered 500 with the user still out of the group
C22_Witness ==
  \E p \in Procs :
    /\ Done(p)
    /\ handler[p] = "handleActivityResponse"
    /\ req[p].response \in NoSpellings
    /\ ~Missing(req[p].requestedByEmail)
    /\ Ops(p) = <<"getSite", "removeMember", "patchItem">>
    /\ calls[p][2].err = NoErr
    /\ calls[p][3].err # NoErr
    /\ calls[p][2].arg \notin members
    /\ resp[p].status = 500

\* the calls of a "yes" invocation, as far as they have been made
YesCalls(p) ==
  /\ Never(p, "removeMember")
  /\ Never(p, "addMember")
  /\ Len(calls[p]) <= 3
  /\ \A i \in DOMAIN calls[p] :
       /\ IsFor(p, i, <<"getSite", "patchItem", "sendMail">>[i])
       /\ i > 1 => calls[p][i - 1].err = NoErr
       /\ calls[p][i].op = "patchItem" =>
            /\ calls[p][i].arg = req[p].sharePointItemId
            /\ calls[p][i].data.supplierdb_ActivityCheckStatus = "Active"
            /\ calls[p][i].data.supplierdb_ActivityReminderCount = 0
       /\ calls[p][i].op = "sendMail" =>
            calls[p][i].data.toRecipients = <<req[p].supplierEmail>>

\* the answer of a "yes" invocation whose site lookup and record patch
\* went through
YesAnswer(p) ==
  ( /\ Done(p)
    /\ Len(calls[p]) >= 2
    /\ calls[p][1].err = NoErr
    /\ calls[p][2].err = NoErr ) =>
    /\ Len(calls[p]) = 3
    /\ resp[p].status = 200
    /\ resp[p].body.success = TRUE
    /\ resp[p].body.action = "activity_confirmed"

\* p is a webhook invocation with a valid payload saying "yes"
SaysYes(p) ==
  /\ handler[p] = "handleActivityResponse"
  /\ ~MissingRequired(handler[p], req[p])
  /\ req[p].response \in YesSpellings

\* C23: a webhook invocation with response "yes" in any letter case leaves
\* the group as it is and never asks for a group removal or a group add; it
\* makes the site lookup, then one record patch (status "Active", reminder
\* count 0), then at most one confirmation send to supplierEmail, and once
\* lookup and patch went through it is answered 200 "activity_confirmed".
C23_YesLeavesMembership ==
  /\ [](\A p \in Procs : SaysYes(p) => YesCalls(p) /\ YesAnswer(p))
  /\ [][\A p \in Procs : SaysYes(p) => members' = members]_vars

\* a "YES" for a group member has been confirmed and answered 200 with the
\* user still in the group
C23_Witness ==
  \E p \in Procs :
    /\ Done(p)
    /\ handler[p] = "handleActivityResponse"
    /\ req[p].response = <<"Y", "E", "S">>
    /\ Ops(p) = <<"getSite", "patchItem", "sendMail">>
    /\ AllSucceeded(p)
    /\ req[p].entraObjectId \in members
    /\ resp[p].status = 200
    /\ resp[p].body.action = "activity_confirmed"

\* C24: the password-reset handler looks up one identifier only: the first
\* request is the one lookup, by userPrincipalName when it is given and by
\* userId otherwise; a lookup answered 404 is the only request of the
\* invocation (no second lookup by userId, no password patch, no mail) and
\* is answered 404.
C24_OneIdentifier ==
  \A p \in Procs :
    handler[p] = "resetFreelancerPassword" =>
      \A i \in DOMAIN calls[p] :
        /\ IsFor(p, i, "getUser") => i = 1
        /\ calls[p][i].op = "getUser" =>
             /\ calls[p][i].arg = IF Missing(req[p].userPrincipalName)
                                  THEN req[p].userId
                                  ELSE req[p].userPrincipalName
             /\ calls[p][i].err.statusCode = 404 =>
                  /\ Len(calls[p]) = 1
                  /\ Never(p, "patchUser")
                  /\ Never(p, "sendMail")
                  /\ Done(p)
                  /\ resp[p].status = 404
                  /\ resp[p].body.success = FALSE

\* a reset naming an unknown principal name and the id of an existing user
\* has been answered 404 after the one lookup by principal name
C24_Witness ==
  \E p \in Procs :
    /\ Done(p)
    /\ handler[p] = "resetFreelancerPassword"
    /\ req[p].userPrincipalName = "gone@egg-events.com"
    /\ req[p].userId = "u2"
    /\ \E u \in directory : u.id = req[p].userId
    /\ Ops(p) = <<"getUser">>
    /\ calls[p][1].arg = "gone@egg-events.com"
    /\ calls[p][1].err.statusCode = 404
    /\ resp[p].status = 404

====
